---- MODULE Spec2Model ----
(***************************************************************************)
(* chainer/functions/activation/softmax.py: the Softmax function object.   *)
(*                                                                         *)
(* One Softmax instance (use_cudnn, axis, and the attribute y that forward *)
(* assigns), the process-wide cuDNN flags, and one input array x (device,  *)
(* dtype, shape).  Arrays are kept flat in row-major order next to their   *)
(* shape, so that reshape keeps the data and changes the shape only.       *)
(*                                                                         *)
(* Element arithmetic is exact.  Forward's output is held in fixed point:  *)
(* the integer v stands for v / One.  Backward's result is held over       *)
(* One * One.  exp is a table of its values in that unit.                  *)
(*                                                                         *)
(* Spec is the instance under any sequence of forward and backward calls   *)
(* on two-element arrays, over every configuration.  SpecHost is the host  *)
(* process on larger arrays, one forward call followed by one backward.    *)
(***************************************************************************)
EXTENDS Integers, Sequences, FiniteSets

VARIABLES
    cudnn_enabled,  \* cuda.cudnn_enabled (process-wide)
    cudnn_version,  \* _cudnn_version (process-wide)
    use_cudnn,      \* self.use_cudnn
    axis,           \* self.axis
    xdev,           \* module of the input array: "numpy" or "cupy"
    xdtype,         \* dtype of the input array
    shape,          \* shape of the input array
    y,              \* self.y: Unset while the attribute does not exist
    ret,            \* what the last forward call returned (None if it raised)
    gyIn,           \* the upstream gradient the caller passed to the last backward
    gy,             \* the caller's upstream gradient array after that call
    gx,             \* what the last backward call returned (None if it raised)
    op,             \* the last call: "init", "forward" or "backward"
    result,         \* how it ended: "ok" or the error raised
    libfail,        \* the library call of the last call signalled failure
    fwdPath,        \* branch taken by the last forward: "none", "generic", "specialized"
    bwdPath,        \* branch taken by the last backward
    handle,         \* a handle obtained by get_handle and not released
    desc,           \* a descriptor created and not released
    completed,      \* a forward call has returned normally
    nback           \* backward calls that returned normally since the last forward: 0, 1, 2 (two or more)

cfg == <<cudnn_enabled, cudnn_version, use_cudnn, axis, xdev, xdtype, shape>>
vars == <<cudnn_enabled, cudnn_version, use_cudnn, axis, xdev, xdtype, shape,
          y, ret, gyIn, gy, gx, op, result, libfail, fwdPath, bwdPath,
          handle, desc, completed, nback>>

\* ---------------------------------------------------------------- bounds

MaxVal == 1     \* input elements are 0..MaxVal
MaxG == 1       \* upstream gradient elements are 0..MaxG

\* ------------------------------------------------------------- constants

MinVersion == 3000

\* an attribute that does not exist and a call that returned nothing are the
\* empty tuple; an array has at least one element
Unset == <<>>
None == <<>>

Dtypes == {"float16", "float32", "int32"}
Kind(dt) == IF dt = "int32" THEN "i" ELSE "f"
Versions == {2000, MinVersion}
Shapes == {<<2>>, <<1, 2>>, <<2, 1>>}
Axes == -3 .. 2

\* -------------------------------------------------- Python and numpy helpers

Min2(a, b) == IF a < b THEN a ELSE b
Max2(a, b) == IF a < b THEN b ELSE a

RECURSIVE Prod(_)
Prod(s) == IF s = <<>> THEN 1 ELSE Head(s) * Prod(Tail(s))

\* a bound of a Python slice over a tuple of length n
SliceBound(i, n) == IF i < 0 THEN Max2(i + n, 0) ELSE Min2(i, n)

\* s[slice(start, stop)]
PySlice(s, start, stop) ==
    SubSeq(s, SliceBound(start, Len(s)) + 1, SliceBound(stop, Len(s)))

\* s[i] raises IndexError unless -len <= i < len
PyIndexOK(s, i) == -Len(s) <= i /\ i < Len(s)
PyIndex(s, i) == s[(IF i < 0 THEN i + Len(s) ELSE i) + 1]

\* numpy accepts an axis in [-ndim, ndim) and counts a negative one from the end
NumpyAxisOK(a, ndim) == -ndim <= a /\ a < ndim
NormAxis(a, ndim) == IF a < 0 THEN a + ndim ELSE a

\* the (left, center, right) split of a shape at a normalised axis
LCR(sh, a) == <<Prod(SubSeq(sh, 1, a)), sh[a + 1], Prod(SubSeq(sh, a + 2, Len(sh)))>>

\* the flat positions (1-based) of the slice along the centre dimension through k
SliceOf(k, C, R, n) ==
    {j \in 1 .. n : /\ (j - 1) \div (C * R) = (k - 1) \div (C * R)
                    /\ (j - 1) % R = (k - 1) % R}

RECURSIVE SumOver(_, _)
SumOver(d, S) ==
    IF S = {} THEN 0
    ELSE LET j == CHOOSE i \in S : TRUE IN d[j] + SumOver(d, S \ {j})

MaxOver(d, S) == CHOOSE m \in {d[j] : j \in S} : \A j \in S : d[j] <= m

\* an elementwise result as an array that holds its elements
Array(f, n) == SubSeq(f, 1, n)

\* d.max(axis, keepdims=True) and d.sum(axis, keepdims=True), broadcast back
MaxKeep(d, C, R) ==
    Array([k \in 1 .. Len(d) |-> MaxOver(d, SliceOf(k, C, R, Len(d)))], Len(d))
SumKeep(d, C, R) ==
    Array([k \in 1 .. Len(d) |-> SumOver(d, SliceOf(k, C, R, Len(d)))], Len(d))

\* exp(0), exp(-1), exp(-2), ... in units of 1 / One
ExpTable == <<1000, 368, 135, 50, 18, 7, 2, 1>>
One == ExpTable[1]
Exp(v) == IF -v < Len(ExpTable) THEN ExpTable[1 - v] ELSE 0

\* all arrays of n elements drawn from S
Arrays(n, S) == [1 .. n -> S]

Garbage == {0, 1}   \* element values an uninitialised buffer may hold

\* ------------------------------------------------------------ the kernels

\* forward, generic branch: subtract the slice maximum, exp in place,
\* divide in place by the slice sum
SoftmaxGeneric(x, C, R) ==
    LET n == Len(x)
        m == MaxKeep(x, C, R)
        y1 == Array([k \in 1 .. n |-> x[k] - m[k]], n)
        y2 == Array([k \in 1 .. n |-> Exp(y1[k])], n)
        s == SumKeep(y2, C, R)
    IN  Array([k \in 1 .. n |-> (y2[k] * One + s[k] \div 2) \div s[k]], n)

\* backward with the reduction taken over the whole array instead of the axis
BackwardGenericSumAll(yv, g, C, R) ==
    LET n == Len(yv)
        gx1 == Array([k \in 1 .. n |-> yv[k] * g[k]], n)
        sumdx == SumKeep(gx1, n, 1)
    IN  [y |-> yv, gy |-> g,
         gx |-> Array([k \in 1 .. n |-> gx1[k] * One - yv[k] * sumdx[k]], n)]

\* backward computing the product in place in self.y (gx = self.y; gx *= gy)
BackwardGenericInPlace(yv, g, C, R) ==
    LET n == Len(yv)
        gx1 == Array([k \in 1 .. n |-> yv[k] * g[k]], n)
        sumdx == SumKeep(gx1, C, R)
        gx2 == Array([k \in 1 .. n |-> gx1[k] * One - gx1[k] * sumdx[k]], n)
    IN  [y |-> gx2, gy |-> g, gx |-> gx2]

\* backward, generic branch: gx = y * gy (a new array); sumdx = gx.sum(axis,
\* keepdims); gx -= y * sumdx.  The arrays y and gy after the three statements
\* are returned next to gx.  gx is in units of 1 / (One * One).
BackwardGeneric(yv, g, C, R) ==
    LET n == Len(yv)
        gx1 == Array([k \in 1 .. n |-> yv[k] * g[k]], n)
        sumdx == SumKeep(gx1, C, R)
    IN  [y |-> yv, gy |-> g,
         gx |-> Array([k \in 1 .. n |-> gx1[k] * One - yv[k] * sumdx[k]], n)]

\* libcudnn.softmaxForward / softmaxBackward in CUDNN_SOFTMAX_MODE_CHANNEL on a
\* 4-d tensor: the same functions along the second dimension
cudnnSoftmaxForward(x, t4) == SoftmaxGeneric(x, t4[2], t4[3])
cudnnSoftmaxBackward(yv, g, t4) == BackwardGeneric(yv, g, t4[2], t4[3]).gx

\* ------------------------------------------------------------ the instance

\* type_check.expect of check_type_forward, conditions in order
check_type_forward ==
    IF Kind(xdtype) # "f" THEN "DtypeError"
    ELSE IF ~(Len(shape) > 1) THEN "ShapeError"
    ELSE IF ~(axis < Len(shape)) THEN "AxisError"
    ELSE "ok"

\* the branch condition of forward
UseCudnnForward ==
    /\ xdev # "numpy"
    /\ cudnn_enabled
    /\ use_cudnn
    /\ (cudnn_version >= MinVersion \/ xdtype # "float16")

\* the branch condition with the version test off by one
UseCudnnBackwardStrict ==
    /\ xdev # "numpy"
    /\ cudnn_enabled
    /\ use_cudnn
    /\ (cudnn_version > MinVersion \/ xdtype # "float16")

\* the branch condition of backward
UseCudnnBackward ==
    /\ xdev # "numpy"
    /\ cudnn_enabled
    /\ use_cudnn
    /\ (cudnn_version >= MinVersion \/ xdtype # "float16")

_get_tensor4d_shape(sh) ==
    <<Prod(PySlice(sh, 0, axis)), PyIndex(sh, axis),
      Prod(PySlice(sh, axis + 1, Len(sh))), 1>>

Bump(c) == IF c < 2 THEN c + 1 ELSE c

\* forward's library call with a fall back to the generic computation
ForwardCudnnCallFallback(x, t4, fail) ==
    IF fail
    THEN LET out == SoftmaxGeneric(x, t4[2], t4[3])
         IN  {[result |-> "ok", y |-> out, ret |-> out]}
    ELSE LET out == cudnnSoftmaxForward(x, t4)
         IN  {[result |-> "ok", y |-> out, ret |-> out]}

\* self.y = xp.empty_like(x[0]); libcudnn.softmaxForward(..., self.y.data.ptr):
\* the outcomes.  A failing library call raises out of forward and leaves the
\* buffer already assigned to self.y with whatever it held.
ForwardCudnnCall(x, t4, fail) ==
    IF fail
    THEN {[result |-> "BackendError", y |-> g, ret |-> None] :
              g \in Arrays(Len(x), Garbage)}
    ELSE LET out == cudnnSoftmaxForward(x, t4)
         IN  {[result |-> "ok", y |-> out, ret |-> out]}

\* backward's library call: gx was allocated by empty_like and is a local, so a
\* raising call returns nothing
BackwardCudnnCall(yv, g, t4, fail) ==
    IF fail
    THEN [result |-> "BackendError", gx |-> None]
    ELSE [result |-> "ok", gx |-> cudnnSoftmaxBackward(yv, g, t4)]

\* a new instance: __init__ assigns use_cudnn and axis and nothing else
NewInstance ==
    /\ y = Unset
    /\ ret = None
    /\ gyIn = None
    /\ gy = None
    /\ gx = None
    /\ op = "init"
    /\ result = "ok"
    /\ libfail = FALSE
    /\ fwdPath = "none"
    /\ bwdPath = "none"
    /\ handle = FALSE
    /\ desc = FALSE
    /\ completed = FALSE
    /\ nback = 0

Init ==
    /\ cudnn_enabled \in BOOLEAN
    /\ cudnn_version \in Versions
    /\ use_cudnn \in BOOLEAN
    /\ axis \in Axes
    /\ xdev \in {"numpy", "cupy"}
    /\ xdtype \in Dtypes
    /\ shape \in Shapes
    /\ NewInstance

\* what every forward call does to the record of the last backward call
ForwardFrame ==
    /\ op' = "forward"
    /\ gyIn' = None /\ gy' = None /\ gx' = None /\ bwdPath' = "none"
    /\ nback' = 0
    /\ UNCHANGED cfg

\* the call is rejected by check_type_forward before forward runs
ForwardRejected ==
    /\ check_type_forward # "ok"
    /\ ForwardFrame
    /\ result' = check_type_forward
    /\ ret' = None
    /\ fwdPath' = "none"
    /\ libfail' = FALSE
    /\ UNCHANGED <<y, handle, desc, completed>>

ForwardGeneric(x) ==
    /\ check_type_forward = "ok"
    /\ ~UseCudnnForward
    /\ ForwardFrame
    /\ fwdPath' = "generic"
    /\ libfail' = FALSE
    /\ UNCHANGED <<handle, desc>>
    /\ IF NumpyAxisOK(axis, Len(shape))
       THEN LET t == LCR(shape, NormAxis(axis, Len(shape)))
                out == SoftmaxGeneric(x, t[2], t[3])
            IN  /\ y' = out
                /\ ret' = out
                /\ result' = "ok"
                /\ completed' = TRUE
       ELSE \* x[0].max(axis=self.axis) raises before self.y is assigned
            /\ result' = "ValueError"
            /\ ret' = None
            /\ UNCHANGED <<y, completed>>

ForwardSpecialized(x, fail) ==
    /\ check_type_forward = "ok"
    /\ UseCudnnForward
    /\ ForwardFrame
    /\ fwdPath' = "specialized"
    /\ handle' = TRUE
    /\ IF ~PyIndexOK(shape, axis)
       THEN \* shape[self.axis] raises in _get_tensor4d_shape
            /\ ~fail
            /\ result' = "IndexError"
            /\ ret' = None
            /\ libfail' = FALSE
            /\ UNCHANGED <<y, desc, completed>>
       ELSE IF Prod(_get_tensor4d_shape(shape)) # Prod(shape)
       THEN \* reshape to a shape of another size raises
            /\ ~fail
            /\ result' = "ValueError"
            /\ ret' = None
            /\ libfail' = FALSE
            /\ UNCHANGED <<y, desc, completed>>
       ELSE /\ desc' = TRUE
            /\ libfail' = fail
            /\ \E o \in ForwardCudnnCall(x, _get_tensor4d_shape(shape), fail) :
                   /\ y' = o.y
                   /\ ret' = o.ret
                   /\ result' = o.result
                   /\ completed' = (completed \/ o.result = "ok")

\* what every backward call leaves alone, and the record of the last forward
BackwardFrame(g) ==
    /\ op' = "backward"
    /\ gyIn' = g
    /\ ret' = None
    /\ UNCHANGED <<cfg, fwdPath, completed>>

BackwardGenericCall(g) ==
    /\ ~UseCudnnBackward
    /\ BackwardFrame(g)
    /\ bwdPath' = "generic"
    /\ libfail' = FALSE
    /\ UNCHANGED <<handle, desc>>
    /\ IF y = Unset
       THEN \* self.y raises AttributeError
            /\ result' = "AttributeError"
            /\ gx' = None /\ gy' = g
            /\ UNCHANGED <<y, nback>>
       ELSE IF ~NumpyAxisOK(axis, Len(shape))
       THEN /\ result' = "ValueError"
            /\ gx' = None /\ gy' = g
            /\ UNCHANGED <<y, nback>>
       ELSE LET t == LCR(shape, NormAxis(axis, Len(shape)))
                o == BackwardGeneric(y, g, t[2], t[3])
            IN  /\ result' = "ok"
                /\ gx' = o.gx
                /\ gy' = o.gy
                /\ y' = o.y
                /\ nback' = Bump(nback)

BackwardSpecializedCall(g, fail) ==
    /\ UseCudnnBackward
    /\ BackwardFrame(g)
    /\ bwdPath' = "specialized"
    /\ handle' = TRUE
    /\ gy' = g
    /\ UNCHANGED y
    /\ IF ~PyIndexOK(shape, axis)
       THEN /\ ~fail
            /\ result' = "IndexError"
            /\ gx' = None
            /\ libfail' = FALSE
            /\ UNCHANGED <<desc, nback>>
       ELSE IF Prod(_get_tensor4d_shape(shape)) # Prod(shape)
       THEN /\ ~fail
            /\ result' = "ValueError"
            /\ gx' = None
            /\ libfail' = FALSE
            /\ UNCHANGED <<desc, nback>>
       ELSE IF y = Unset
       THEN \* self.y.data.ptr, an argument of the library call, raises
            /\ ~fail
            /\ desc' = TRUE
            /\ result' = "AttributeError"
            /\ gx' = None
            /\ libfail' = FALSE
            /\ UNCHANGED nback
       ELSE LET o == BackwardCudnnCall(y, g, _get_tensor4d_shape(shape), fail)
            IN  /\ desc' = TRUE
                /\ libfail' = fail
                /\ result' = o.result
                /\ gx' = o.gx
                /\ nback' = IF o.result = "ok" THEN Bump(nback) ELSE nback

Next ==
    \/ ForwardRejected
    \/ \E x \in Arrays(Prod(shape), 0 .. MaxVal) : ForwardGeneric(x)
    \/ \E x \in Arrays(Prod(shape), 0 .. MaxVal), fail \in BOOLEAN :
           ForwardSpecialized(x, fail)
    \/ \E g \in Arrays(Prod(shape), 0 .. MaxG) : BackwardGenericCall(g)
    \/ \E g \in Arrays(Prod(shape), 0 .. MaxG), fail \in BOOLEAN :
           BackwardSpecializedCall(g, fail)

Spec == Init /\ [][Next]_vars

\* ------------------------------------------------- the kernels on the host
\* A process without cuDNN and a float32 array in host memory, larger shapes,
\* and the use the framework makes of an instance: one forward call that
\* returns, then one backward call.

HostShapes == {<<2, 2>>, <<2, 1, 2>>}

InitHost ==
    /\ cudnn_enabled = FALSE
    /\ cudnn_version \in Versions
    /\ use_cudnn = TRUE
    /\ axis \in Axes
    /\ xdev = "numpy"
    /\ xdtype = "float32"
    /\ shape \in HostShapes
    /\ NewInstance

NextHost ==
    \/ ForwardRejected
    \/ /\ ~completed
       /\ \E x \in Arrays(Prod(shape), 0 .. MaxVal) : ForwardGeneric(x)
    \/ /\ completed
       /\ nback = 0
       /\ \E g \in Arrays(Prod(shape), 0 .. MaxG) : BackwardGenericCall(g)

SpecHost == InitHost /\ [][NextHost]_vars

\* ------------------------------------------------------------- the claims

InRange == 0 <= axis /\ axis < Len(shape)

\* C1: on an instance on which no forward call has returned, backward raises
\* (whatever the error raised is called) and returns no gradient.
C1_BackwardBeforeForwardFails ==
    (op = "backward" /\ ~completed) => (result # "ok" /\ gx = None)

\* C2: once a forward call has returned, another forward call raises and
\* leaves the memoized output of the first call in place.
C2_SecondForwardFails ==
    [][(completed /\ op' = "forward") => (result' # "ok" /\ y' = y)]_vars

\* the decision rule as the specification words it
C3_Rule ==
    /\ xdev = "cupy"
    /\ cudnn_enabled
    /\ use_cudnn
    /\ (cudnn_version >= MinVersion \/ xdtype # "float16")

\* C3: forward and backward each take the cuDNN branch exactly when the array
\* is on the accelerator, the library is available, the instance permits it,
\* and the version is at least the minimum or the dtype is not float16; so a
\* forward and a backward of the instance take the same branch.
C3_BackendRule ==
    /\ (op = "forward" /\ check_type_forward = "ok") => fwdPath # "none"
    /\ op = "backward" => bwdPath # "none"
    /\ fwdPath # "none" => (fwdPath = "specialized" <=> C3_Rule)
    /\ bwdPath # "none" => (bwdPath = "specialized" <=> C3_Rule)
    /\ (fwdPath # "none" /\ bwdPath # "none") => fwdPath = bwdPath

C3_Witness ==
    /\ op = "backward"
    /\ fwdPath = "specialized"
    /\ bwdPath = "specialized"
    /\ xdtype = "float16"
    /\ result = "ok"

\* C4: a forward call on an otherwise valid array whose axis is outside
\* [0, rank) is rejected with AxisError before forward runs on either branch.
C4_AxisOutsideRangeRejected ==
    (op = "forward" /\ Kind(xdtype) = "f" /\ Len(shape) > 1 /\ ~InRange)
        => (result = "AxisError" /\ fwdPath = "none")

\* C5: when the cuDNN branch was taken and the library call signalled failure,
\* the call raises BackendError, the generic computation is not used instead,
\* and the call returns nothing.
C5_NoFallback ==
    libfail =>
        /\ result = "BackendError"
        /\ op = "forward" => (fwdPath = "specialized" /\ ret = None)
        /\ op = "backward" => (bwdPath = "specialized" /\ gx = None)

C5_Witness == libfail /\ op = "forward" /\ fwdPath = "specialized"

\* C6: between two calls no handle and no descriptor of an earlier call is held.
C6_NothingHeldBetweenCalls == ~handle /\ ~desc

\* the coordinates (0-based) of flat position k (1-based) in shape sh
Coord(k, sh) ==
    [d \in 1 .. Len(sh) |-> ((k - 1) \div Prod(SubSeq(sh, d + 1, Len(sh)))) % sh[d]]

\* the positions that differ from k in the coordinate of dimension a at most
SameSlice(k, sh, a) ==
    {j \in 1 .. Prod(sh) :
        \A d \in 1 .. Len(sh) : d # a + 1 => Coord(j, sh)[d] = Coord(k, sh)[d]}

\* C8: on the generic branch the returned gradient is, at every index i,
\* y_i * (gy_i - sum_j y_j * gy_j), j ranging over the slice along axis
\* through i (in units of 1 / (One * One)).
C8_VectorJacobianProduct ==
    (op = "backward" /\ result = "ok" /\ bwdPath = "generic") =>
        \A i \in 1 .. Prod(shape) :
            LET S == SameSlice(i, shape, NormAxis(axis, Len(shape)))
                dot == SumOver([j \in 1 .. Prod(shape) |-> y[j] * gyIn[j]], S)
            IN  gx[i] = y[i] * (gyIn[i] * One - dot)

\* a backward on two slices of two elements whose sums differ
C8_Witness ==
    /\ op = "backward" /\ result = "ok" /\ bwdPath = "generic"
    /\ shape = <<2, 2>> /\ axis = 1
    /\ gyIn = <<1, 0, 0, 0>>
    /\ gx[1] > 0 /\ gx[2] < 0 /\ gx[3] = 0 /\ gx[4] = 0

\* C9: a forward call that raises on the cuDNN branch of an instance on which
\* no forward has returned leaves the instance without the attribute y.
C9_FailedForwardStoresNothing ==
    (op = "forward" /\ fwdPath = "specialized" /\ result # "ok" /\ ~completed)
        => y = Unset

\* C10: a backward call after a forward has returned leaves self.y, the
\* configuration and the caller's gy as they were, and two backward calls in
\* a row with equal gy return equal gradients.
C10_BackwardFrame ==
    [][(completed /\ op' = "backward") =>
          /\ y' = y
          /\ axis' = axis
          /\ use_cudnn' = use_cudnn
          /\ gy' = gyIn'
          /\ (op = "backward" /\ result = "ok" /\ result' = "ok" /\ gyIn' = gyIn)
                 => gx' = gx]_vars

C10_Witness ==
    /\ completed /\ op = "backward" /\ result = "ok" /\ nback = 2
    /\ \E k \in 1 .. Len(gx) : gx[k] # 0

====
